---- MODULE Spec2Model ----
(***************************************************************************)
(* FusionDNS (src/src/main.rs): a DNS proxy that answers from an override  *)
(* store (MySQL) through a JSON-file backed cache and forwards everything  *)
(* else to an upstream resolver.                                           *)
(*                                                                         *)
(* Strings are sequences of one-character strings, so that trimming,       *)
(* lowercasing and parsing are computed and not assumed.                   *)
(***************************************************************************)
EXTENDS Integers, Sequences, FiniteSets, TLC

\* ------------------------------------------------------------------ bounds
MaxCycles == 1        \* inbound datagrams received by the dispatch loop
MaxDepth == 5         \* nested handle_query_recursive calls explored
MaxSpurious == 1      \* datagrams at the upstream socket that are no fresh reply

\* ------------------------------------------------------- program constants
BufSize == 512        \* let mut buf = [0u8; 512]
StoreTtl == 3600      \* let ttl = 3600

None == [tag |-> "None"]

Min(a, b) == IF a < b THEN a ELSE b

\* ------------------------------------------------------------ string model
Digits == {"0", "1", "2", "3", "4", "5", "6", "7", "8", "9"}

DigitVal(c) ==
  CASE c = "0" -> 0 [] c = "1" -> 1 [] c = "2" -> 2 [] c = "3" -> 3
    [] c = "4" -> 4 [] c = "5" -> 5 [] c = "6" -> 6 [] c = "7" -> 7
    [] c = "8" -> 8 [] c = "9" -> 9

LowerChar(c) ==
  CASE c = "A" -> "a" [] c = "B" -> "b" [] c = "C" -> "c" [] OTHER -> c

Lower(s) == [i \in 1..Len(s) |-> LowerChar(s[i])]

\* str::trim_end_matches('.'): strips every trailing dot
RECURSIVE TrimEndDots(_)
TrimEndDots(s) ==
  IF Len(s) > 0 /\ s[Len(s)] = "."
    THEN TrimEndDots(SubSeq(s, 1, Len(s) - 1))
    ELSE s

\* the parts of s between dots, left to right
RECURSIVE SplitDots(_, _, _)
SplitDots(s, cur, acc) ==
  IF s = <<>> THEN Append(acc, cur)
  ELSE IF Head(s) = "." THEN SplitDots(Tail(s), <<>>, Append(acc, cur))
  ELSE SplitDots(Tail(s), Append(cur, Head(s)), acc)

RECURSIVE DecVal(_, _)
DecVal(p, v) == IF p = <<>> THEN v ELSE DecVal(Tail(p), 10 * v + DigitVal(Head(p)))

OctetOk(p) ==
  /\ Len(p) \in 1..3
  /\ \A i \in 1..Len(p) : p[i] \in Digits
  /\ (Len(p) > 1 => p[1] # "0")
  /\ DecVal(p, 0) <= 255

\* str::parse::<std::net::Ipv4Addr>(): four decimal octets, no leading zeros
ParseIpv4(s) ==
  LET parts == SplitDots(s, <<>>, <<>>)
  IN IF Len(parts) = 4 /\ \A i \in 1..4 : OctetOk(parts[i])
       THEN [ok |-> TRUE, addr |-> [i \in 1..4 |-> DecVal(parts[i], 0)]]
       ELSE [ok |-> FALSE]

\* A domain name: its labels joined by dots (no final dot) and the fqdn flag.
\* Name::parse(value, None) (trust-dns): whitespace is rejected, labels are
\* lowercased by the IDNA mapping, a final dot makes the name fully qualified.
NameParse(s) ==
  IF s = <<>> \/ \E i \in 1..Len(s) : s[i] = " "
    THEN [ok |-> FALSE]
    ELSE LET fq == s[Len(s)] = "."
             body == IF fq THEN SubSeq(s, 1, Len(s) - 1) ELSE s
         IN [ok |-> TRUE, name |-> [s |-> Lower(body), fqdn |-> fq]]

\* Name::to_string(): the labels as stored, plus the root dot when fqdn
NameToString(n) == IF n.fqdn THEN Append(n.s, ".") ELSE n.s

\* let qname = query.name().to_string().trim_end_matches('.').to_string();
QName(query) == TrimEndDots(NameToString(query.name))

\* ---------------------------------------------------------------- records
\* Record::from_rdata(name, ttl, RData::A(A(addr)))
ARecord(name, ttl, addr) == [name |-> name, ttl |-> ttl, rtype |-> "A", rdata |-> addr]

\* Record::from_rdata(name, ttl, RData::CNAME(CNAME(cname)))
CnameRecord(name, ttl, cname) == [name |-> name, ttl |-> ttl, rtype |-> "CNAME", rdata |-> cname]

\* Query::query(cname, RecordType::A)
AQuery(cname) == [name |-> cname, qtype |-> "A"]

\* DnsRecord { record_type, value, ttl }
DnsRecord(record_type, value, ttl) == [record_type |-> record_type, value |-> value, ttl |-> ttl]

\* ------------------------------------------------------------------ Cache
EmptyMap == [k \in {} |-> None]

\* Cache::get
CacheHas(c, key) == key \in DOMAIN c

\* variant: entry().or_insert() on the wrong map, the record is lost
CacheInsert_Dropped(c, key, rec) == c

\* Cache::insert (HashMap::insert: replaces an existing entry)
CacheInsert(c, key, rec) == [k \in DOMAIN c \cup {key} |-> IF k = key THEN rec ELSE c[k]]

\* Cache::remove (no-op when the key is absent)
CacheRemove(c, key) == [k \in DOMAIN c \ {key} |-> c[k]]

\* The snapshot file: absent, unparsable text, or the JSON of a Cache.
FileAbsent == [kind |-> "absent"]
FileCorrupt == [kind |-> "corrupt"]
FileJson(c) == [kind |-> "json", records |-> c]

\* Cache::load: an unreadable or unparsable file gives the empty cache
CacheLoad(f) == IF f.kind = "json" THEN f.records ELSE EmptyMap

\* Cache::save: fs::write of the whole mapping; its error is dropped. A failed
\* write leaves the old file or a damaged one.
WriteOutcomes == {"written", "unchanged", "damaged"}

CacheSave(c, f, w) ==
  CASE w = "written" -> FileJson(c)
    [] w = "unchanged" -> f
    [] w = "damaged" -> FileCorrupt

\* ------------------------------------------------------------------ store
\* pool.get_conn() then conn.exec_first(sql_query, (qname,)): a row
\* (type, value), no row, or a failure of either call. db tells how the two
\* calls end this time.
DbOutcomes == {"ok", "no_conn", "query_error"}

StoreLookup(st, db, qname) ==
  IF db # "ok" THEN [tag |-> "Unreachable"]
  ELSE IF qname \in DOMAIN st THEN [tag |-> "Found", row |-> st[qname]]
  ELSE [tag |-> "NotFound"]

\* What one invocation looked up: the key, the requested type, where the
\* answer came from and how the write of the snapshot file ended.
Hop(query, qname, src, row) ==
  [key |-> qname, qtype |-> query.qtype, src |-> src, row |-> row, write |-> "none"]

\* --------------------------------------------------------------- resolver
\* variant: the cached address is served whatever type was requested
HitTop_NoTypeCheck(query, cached) ==
  IF cached.record_type = "A" THEN
    LET p == ParseIpv4(cached.value)
    IN [recs |-> IF p.ok THEN <<ARecord(query.name, cached.ttl, p.addr)>> ELSE <<>>,
        call |-> None]
  ELSE IF cached.record_type = "CNAME" THEN
    LET p == NameParse(cached.value)
    IN IF p.ok
         THEN [recs |-> <<CnameRecord(query.name, cached.ttl, p.name)>>, call |-> AQuery(p.name)]
         ELSE [recs |-> <<>>, call |-> None]
  ELSE [recs |-> <<>>, call |-> None]

\* variant: the ttl written by the store branch is used for cached records too
HitTop_FixedTtl(query, cached) ==
  IF cached.record_type = "A" /\ query.qtype = "A" THEN
    LET p == ParseIpv4(cached.value)
    IN [recs |-> IF p.ok THEN <<ARecord(query.name, StoreTtl, p.addr)>> ELSE <<>>,
        call |-> None]
  ELSE IF cached.record_type = "CNAME" THEN
    LET p == NameParse(cached.value)
    IN IF p.ok
         THEN [recs |-> <<CnameRecord(query.name, StoreTtl, p.name)>>, call |-> AQuery(p.name)]
         ELSE [recs |-> <<>>, call |-> None]
  ELSE [recs |-> <<>>, call |-> None]

\* handle_query, cache hit: what is pushed and the recursive call, if any
HitTop(query, cached) ==
  IF cached.record_type = "A" /\ query.qtype = "A" THEN
    LET p == ParseIpv4(cached.value)
    IN [recs |-> IF p.ok THEN <<ARecord(query.name, cached.ttl, p.addr)>> ELSE <<>>,
        call |-> None]
  ELSE IF cached.record_type = "CNAME" THEN
    LET p == NameParse(cached.value)
    IN IF p.ok
         THEN [recs |-> <<CnameRecord(query.name, cached.ttl, p.name)>>, call |-> AQuery(p.name)]
         ELSE [recs |-> <<>>, call |-> None]
  ELSE [recs |-> <<>>, call |-> None]

\* handle_query_recursive, cache hit
HitRec(query, cached) ==
  IF cached.record_type = "A" /\ query.qtype = "A" THEN
    LET p == ParseIpv4(cached.value)
    IN [recs |-> IF p.ok THEN <<ARecord(query.name, cached.ttl, p.addr)>> ELSE <<>>,
        call |-> None]
  ELSE IF cached.record_type = "CNAME" /\ query.qtype = "CNAME" THEN
    LET p == NameParse(cached.value)
    IN IF p.ok
         THEN [recs |-> <<CnameRecord(query.name, cached.ttl, p.name)>>, call |-> AQuery(p.name)]
         ELSE [recs |-> <<>>, call |-> None]
  ELSE [recs |-> <<>>, call |-> None]

\* variant: a value that is no IPv4 literal is answered with 0.0.0.0
FoundTop_DefaultAddr(query, row) ==
  LET entry == DnsRecord(row.record_type, row.value, StoreTtl) IN
  IF row.record_type = "A" /\ query.qtype = "A" THEN
    LET p == ParseIpv4(row.value)
    IN [entry |-> entry,
        recs |-> <<ARecord(query.name, StoreTtl, IF p.ok THEN p.addr ELSE <<0, 0, 0, 0>>)>>,
        call |-> None]
  ELSE IF row.record_type = "CNAME" THEN
    LET p == NameParse(row.value)
    IN IF p.ok
         THEN [entry |-> entry,
               recs |-> <<CnameRecord(query.name, StoreTtl, p.name)>>,
               call |-> AQuery(p.name)]
         ELSE [entry |-> entry, recs |-> <<>>, call |-> None]
  ELSE [entry |-> entry, recs |-> <<>>, call |-> None]

\* handle_query, the store returned a row: the cache entry, what is pushed
\* and the recursive call
FoundTop(query, row) ==
  LET entry == DnsRecord(row.record_type, row.value, StoreTtl) IN
  IF row.record_type = "A" /\ query.qtype = "A" THEN
    LET p == ParseIpv4(row.value)
    IN [entry |-> entry,
        recs |-> IF p.ok THEN <<ARecord(query.name, StoreTtl, p.addr)>> ELSE <<>>,
        call |-> None]
  ELSE IF row.record_type = "CNAME" THEN
    LET p == NameParse(row.value)
    IN IF p.ok
         THEN [entry |-> entry,
               recs |-> <<CnameRecord(query.name, StoreTtl, p.name)>>,
               call |-> AQuery(p.name)]
         ELSE [entry |-> entry, recs |-> <<>>, call |-> None]
  ELSE [entry |-> entry, recs |-> <<>>, call |-> None]

\* handle_query_recursive, the store returned a row
FoundRec(query, row) ==
  LET entry == DnsRecord(row.record_type, row.value, StoreTtl) IN
  IF row.record_type = "A" /\ query.qtype = "A" THEN
    LET p == ParseIpv4(row.value)
    IN [entry |-> entry,
        recs |-> IF p.ok THEN <<ARecord(query.name, StoreTtl, p.addr)>> ELSE <<>>,
        call |-> None]
  ELSE IF row.record_type = "CNAME" THEN
    LET p == NameParse(row.value)
    IN IF p.ok
         THEN [entry |-> entry,
               recs |-> <<CnameRecord(query.name, StoreTtl, p.name)>>,
               call |-> AQuery(p.name)]
         ELSE [entry |-> entry, recs |-> <<>>, call |-> None]
  ELSE [entry |-> entry, recs |-> <<>>, call |-> None]

\* variant: the found row is cached without a call of cache.save
MissTop_NoSave(query, c, r) ==
  LET qname == QName(query) IN
  CASE r.tag = "Unreachable" ->
         [recs |-> <<>>, call |-> None, cache |-> c, save |-> FALSE,
          hop |-> Hop(query, qname, "unreachable", None)]
    [] r.tag = "Found" ->
         LET f == FoundTop(query, r.row)
         IN [recs |-> f.recs, call |-> f.call, cache |-> CacheInsert(c, qname, f.entry),
             save |-> FALSE, hop |-> Hop(query, qname, "found", r.row)]
    [] r.tag = "NotFound" ->
         [recs |-> <<>>, call |-> None, cache |-> c, save |-> FALSE,
          hop |-> Hop(query, qname, "notfound", None)]

\* handle_query after a cache miss, given the store's answer r. save tells
\* whether cache.save is called. No else branch: NotFound touches nothing.
MissTop(query, c, r) ==
  LET qname == QName(query) IN
  CASE r.tag = "Unreachable" ->
         [recs |-> <<>>, call |-> None, cache |-> c, save |-> FALSE,
          hop |-> Hop(query, qname, "unreachable", None)]
    [] r.tag = "Found" ->
         LET f == FoundTop(query, r.row)
         IN [recs |-> f.recs, call |-> f.call, cache |-> CacheInsert(c, qname, f.entry),
             save |-> TRUE, hop |-> Hop(query, qname, "found", r.row)]
    [] r.tag = "NotFound" ->
         [recs |-> <<>>, call |-> None, cache |-> c, save |-> FALSE,
          hop |-> Hop(query, qname, "notfound", None)]

\* variant: an empty result is remembered as a negative entry
MissRec_NegativeEntry(query, c, r) ==
  LET qname == QName(query) IN
  CASE r.tag = "Unreachable" ->
         [recs |-> <<>>, call |-> None, cache |-> c, save |-> FALSE,
          hop |-> Hop(query, qname, "unreachable", None)]
    [] r.tag = "Found" ->
         LET f == FoundRec(query, r.row)
         IN [recs |-> f.recs, call |-> f.call, cache |-> CacheInsert(c, qname, f.entry),
             save |-> TRUE, hop |-> Hop(query, qname, "found", r.row)]
    [] r.tag = "NotFound" ->
         [recs |-> <<>>, call |-> None,
          cache |-> CacheInsert(c, qname, DnsRecord("NONE", <<>>, StoreTtl)), save |-> TRUE,
          hop |-> Hop(query, qname, "notfound", None)]

\* variant: a failed lookup is handled like an empty result
MissRec_EvictOnError(query, c, r) ==
  LET qname == QName(query) IN
  CASE r.tag = "Unreachable" ->
         [recs |-> <<>>, call |-> None, cache |-> CacheRemove(c, qname), save |-> TRUE,
          hop |-> Hop(query, qname, "unreachable", None)]
    [] r.tag = "Found" ->
         LET f == FoundRec(query, r.row)
         IN [recs |-> f.recs, call |-> f.call, cache |-> CacheInsert(c, qname, f.entry),
             save |-> TRUE, hop |-> Hop(query, qname, "found", r.row)]
    [] r.tag = "NotFound" ->
         [recs |-> <<>>, call |-> None, cache |-> CacheRemove(c, qname), save |-> TRUE,
          hop |-> Hop(query, qname, "notfound", None)]

\* handle_query_recursive after a cache miss: NotFound removes and saves
MissRec(query, c, r) ==
  LET qname == QName(query) IN
  CASE r.tag = "Unreachable" ->
         [recs |-> <<>>, call |-> None, cache |-> c, save |-> FALSE,
          hop |-> Hop(query, qname, "unreachable", None)]
    [] r.tag = "Found" ->
         LET f == FoundRec(query, r.row)
         IN [recs |-> f.recs, call |-> f.call, cache |-> CacheInsert(c, qname, f.entry),
             save |-> TRUE, hop |-> Hop(query, qname, "found", r.row)]
    [] r.tag = "NotFound" ->
         [recs |-> <<>>, call |-> None, cache |-> CacheRemove(c, qname), save |-> TRUE,
          hop |-> Hop(query, qname, "notfound", None)]

\* variant: the callee's records are put in front
Extend_Reversed(recs, a_records) == a_records \o recs

\* records.extend(a_records): the callee's records follow the caller's
Extend(recs, a_records) == recs \o a_records

\* variant: the store is asked first and a row it returns replaces the entry
HandleQueryBody_StoreFirst(query, c, st, db) ==
  LET qname == QName(query)
      r == StoreLookup(st, db, qname)
  IN IF r.tag = "Found" THEN MissTop(query, c, r)
     ELSE IF CacheHas(c, qname)
       THEN LET h == HitTop(query, c[qname])
            IN [recs |-> h.recs, call |-> h.call, cache |-> c, save |-> FALSE,
                hop |-> Hop(query, qname, "cache", c[qname])]
       ELSE MissTop(query, c, r)

\* handle_query: one invocation up to its return or its recursive call
HandleQueryBody(query, c, st, db) ==
  LET qname == QName(query) IN
  IF CacheHas(c, qname)
    THEN LET h == HitTop(query, c[qname])
         IN [recs |-> h.recs, call |-> h.call, cache |-> c, save |-> FALSE,
             hop |-> Hop(query, qname, "cache", c[qname])]
    ELSE MissTop(query, c, StoreLookup(st, db, qname))

\* handle_query_recursive: one invocation up to its return or its recursive call
HandleQueryRecursiveBody(query, c, st, db) ==
  LET qname == QName(query) IN
  IF CacheHas(c, qname)
    THEN LET h == HitRec(query, c[qname])
         IN [recs |-> h.recs, call |-> h.call, cache |-> c, save |-> FALSE,
             hop |-> Hop(query, qname, "cache", c[qname])]
    ELSE MissRec(query, c, StoreLookup(st, db, qname))

\* ------------------------------------------------------------- dispatcher
\* A datagram stands for its bytes: what it encodes and how long it is. Bytes
\* past the encoded message are trailing bytes the decoder does not read.
HeaderLen == 12

RECURSIVE QueriesLen(_)
QueriesLen(qs) == IF qs = <<>> THEN 0 ELSE Len(Head(qs).name.s) + 6 + QueriesLen(Tail(qs))

WireLen(qs) == HeaderLen + QueriesLen(qs)

\* recv_from(&mut buf): at most buf.len() bytes are kept
Truncate(d) == [d EXCEPT !.len = Min(d.len, BufSize)]

\* Message::from_vec(&buf[..len])
Decode(b) ==
  IF b.kind = "query" /\ b.len >= WireLen(b.queries)
    THEN [ok |-> TRUE, msg |-> [id |-> b.id, queries |-> b.queries]]
    ELSE [ok |-> FALSE]

\* Message::new() with set_id, set_message_type, set_op_code, set_recursion_desired
NewResponse(message) ==
  [id |-> message.id, message_type |-> "Response", op_code |-> "Query",
   recursion_desired |-> TRUE, queries |-> <<>>, answers |-> <<>>]

\* for record in &records { response.add_answer(record.clone()); }
AddAnswers(resp, recs) == [resp EXCEPT !.answers = @ \o recs]

\* variant: handled = !records.is_empty(), the last question decides
Handled_LastOnly(h, recs) == recs # <<>>

\* if !records.is_empty() { ...; handled = true; }
Handled(h, recs) == h \/ recs # <<>>

\* ------------------------------------------------------------ input sets
Ip1 == <<"1", ".", "2", ".", "3", ".", "4">>
Ip2 == <<"1", "0", ".", "0", ".", "0", ".", "5">>
BadIp == <<"1", ".", "2", ".", "3">>
BadName == <<"b", " ", "c">>

Row(record_type, value) == [record_type |-> record_type, value |-> value]

Map1(k1, v1) == [k \in {k1} |-> v1]
Map2(k1, v1, k2, v2) == [k \in {k1, k2} |-> IF k = k1 THEN v1 ELSE v2]

StoreEmpty == EmptyMap
StoreAddr == Map1(<<"a">>, Row("A", Ip2))
StoreChain == Map2(<<"a">>, Row("CNAME", <<"b">>), <<"b">>, Row("A", Ip1))
\* an alias cycle; the table also answers the parameter "A" (a row stored in
\* upper case, or a case-insensitive collation matching the row of "a")
StoreLoop ==
  [k \in {<<"a">>, <<"b">>, <<"A">>} |->
     IF k = <<"b">> THEN Row("CNAME", <<"A", ".">>) ELSE Row("CNAME", <<"b">>)]
StoreBad == Map2(<<"a">>, Row("A", BadIp), <<"b">>, Row("CNAME", BadName))

StoreLong ==
  [k \in {<<"a">>, <<"b">>, <<"c">>} |->
     IF k = <<"a">> THEN Row("CNAME", <<"b">>)
     ELSE IF k = <<"b">> THEN Row("CNAME", <<"c">>)
     ELSE Row("A", Ip1)]

StoreConfigs == {StoreEmpty, StoreAddr, StoreChain, StoreLoop, StoreBad, StoreLong}

InitialFiles ==
  { FileAbsent, FileCorrupt,
    FileJson(Map1(<<"a">>, DnsRecord("A", Ip1, 60))),
    FileJson(Map2(<<"a">>, DnsRecord("CNAME", <<"b", ".">>, 60),
                  <<"b">>, DnsRecord("A", Ip1, 300))) }

WireName(s) == [s |-> s, fqdn |-> TRUE]
Q(s, qtype) == [name |-> WireName(s), qtype |-> qtype]

Dgram(id, qs, extra) == [kind |-> "query", id |-> id, queries |-> qs, len |-> WireLen(qs) + extra]

Inbound ==
  { Dgram(2, <<Q(<<"a">>, "CNAME")>>, 0),
    Dgram(3, <<Q(<<"a">>, "A"), Q(<<"c">>, "A")>>, 0),
    Dgram(5, <<Q(<<"a">>, "A"), Q(<<"a">>, "A")>>, 0),
    Dgram(4, <<Q(<<"b">>, "AAAA")>>, 600),
    Dgram(6, <<Q(<<"A">>, "A")>>, 0),
    [kind |-> "junk", id |-> 0, queries |-> <<>>, len |-> 3] }

ReplyLens == {100, 513}

Reply(req, n) == [kind |-> "reply", from |-> "upstream", id |-> req.id, len |-> n]

SpuriousDgrams == { [kind |-> "reply", from |-> "other", id |-> 9, len |-> 40] }

\* -------------------------------------------------------------- variables
VARIABLES
  pc,          \* where run_proxy is
  exitCause,   \* why run_proxy returned
  cache,       \* cache.records
  file,        \* the snapshot file dns_cache.json
  store,       \* the rows of the override table
  cycles,      \* datagrams received so far
  inbound,     \* the datagram as the requester sent it
  buf,         \* buf[..len]
  qi,          \* index of the question being handled
  response,    \* the response being built
  handled,     \* handled
  records,     \* records of the running handle_query
  call,        \* the query of the pending handle_query_recursive call
  depth,       \* nested handle_query_recursive calls
  hops,        \* what each invocation of this resolution looked up
  total,       \* records emitted in this cycle
  sentClient,  \* what this cycle sent to the requester
  sentUp,      \* what this cycle sent to the upstream resolver
  upPending,   \* forwarded datagram the upstream has not answered
  upInbox,     \* datagrams queued at upstream_socket
  upGot,       \* the datagram upstream_socket.recv_from took
  spurious,    \* spurious datagrams so far
  foundSeen    \* (key, row) pairs earlier resolutions got from the store

vars == <<pc, exitCause, cache, file, store, cycles, inbound, buf, qi, response,
          handled, records, call, depth, hops, total, sentClient, sentUp, upPending,
          upInbox, upGot, spurious, foundSeen>>

progVars == <<cache, file, cycles, inbound, buf, qi, response, handled, records, call,
              depth, hops, total, sentClient, sentUp, upGot, foundSeen>>

Queries == Decode(buf).msg.queries

Init ==
  /\ pc = "start" /\ exitCause = "none"
  /\ cache = EmptyMap
  /\ file \in InitialFiles
  /\ store \in StoreConfigs
  /\ cycles = 0
  /\ inbound = None /\ buf = None
  /\ qi = 0
  /\ response = None /\ handled = FALSE
  /\ records = <<>> /\ call = None /\ depth = 0 /\ hops = <<>>
  /\ total = 0
  /\ sentClient = None /\ sentUp = None
  /\ upPending = None /\ upInbox = <<>> /\ upGot = None
  /\ spurious = 0
  /\ foundSeen = {}

Exit(cause) ==
  /\ pc' = "exited" /\ exitCause' = cause

\* run_proxy up to the loop: bind the sockets, load the cache
Startup ==
  /\ pc = "start"
  /\ \E ok \in BOOLEAN :
       IF ok
         THEN /\ pc' = "recv" /\ cache' = CacheLoad(file) /\ UNCHANGED exitCause
         ELSE /\ Exit("bind") /\ UNCHANGED cache
  /\ UNCHANGED <<file, store, cycles, inbound, buf, qi, response, handled, records,
                 call, depth, hops, total, sentClient, sentUp, upPending, upInbox, upGot,
                 spurious, foundSeen>>

\* socket.recv_from, Message::from_vec, the response header
Receive ==
  /\ pc = "recv" /\ cycles < MaxCycles
  /\ \E d \in Inbound :
       LET b == Truncate(d)
           m == Decode(b)
       IN /\ inbound' = d /\ buf' = b
          /\ IF m.ok
               THEN /\ pc' = "queries" /\ response' = NewResponse(m.msg)
                    /\ UNCHANGED exitCause
               ELSE /\ Exit("decode") /\ response' = None
  /\ cycles' = cycles + 1
  /\ qi' = 1 /\ handled' = FALSE /\ total' = 0
  /\ records' = <<>> /\ call' = None /\ depth' = 0 /\ hops' = <<>>
  /\ sentClient' = None /\ sentUp' = None /\ upGot' = None
  /\ UNCHANGED <<cache, file, store, upPending, upInbox, spurious, foundSeen>>

\* handle_query(query.clone(), ...) up to its return or first recursive call
HandleQuery ==
  /\ pc = "queries" /\ qi <= Len(Queries)
  /\ \E db \in DbOutcomes :
     LET r == HandleQueryBody(Queries[qi], cache, store, db)
     IN /\ records' = r.recs /\ call' = r.call /\ cache' = r.cache
        /\ IF r.save
             THEN \E w \in WriteOutcomes :
                    /\ file' = CacheSave(r.cache, file, w)
                    /\ hops' = <<[r.hop EXCEPT !.write = w]>>
             ELSE file' = file /\ hops' = <<r.hop>>
        /\ pc' = IF r.call = None THEN "returned" ELSE "recursing"
  /\ depth' = 0
  /\ UNCHANGED <<exitCause, store, cycles, inbound, buf, qi, response, handled, total,
                 sentClient, sentUp, upPending, upInbox, upGot, spurious, foundSeen>>

\* one handle_query_recursive invocation; its records extend the caller's
HandleQueryRecursive ==
  /\ pc = "recursing" /\ depth < MaxDepth
  /\ \E db \in DbOutcomes :
     LET r == HandleQueryRecursiveBody(call, cache, store, db)
     IN /\ records' = Extend(records, r.recs) /\ call' = r.call /\ cache' = r.cache
        /\ IF r.save
             THEN \E w \in WriteOutcomes :
                    /\ file' = CacheSave(r.cache, file, w)
                    /\ hops' = Append(hops, [r.hop EXCEPT !.write = w])
             ELSE file' = file /\ hops' = Append(hops, r.hop)
        /\ pc' = IF r.call = None THEN "returned" ELSE "recursing"
  /\ depth' = depth + 1
  /\ UNCHANGED <<exitCause, store, cycles, inbound, buf, qi, response, handled, total,
                 sentClient, sentUp, upPending, upInbox, upGot, spurious, foundSeen>>

FoundIn(hs) == { [key |-> hs[i].key, row |-> hs[i].row] : i \in { j \in 1..Len(hs) : hs[j].src = "found" } }

\* the for-loop body after handle_query returned
Collect ==
  /\ pc = "returned"
  /\ handled' = Handled(handled, records)
  /\ response' = IF records # <<>> THEN AddAnswers(response, records) ELSE response
  /\ total' = total + Len(records)
  /\ foundSeen' = foundSeen \cup FoundIn(hops)
  /\ qi' = qi + 1
  /\ records' = <<>> /\ call' = None /\ depth' = 0 /\ hops' = <<>>
  /\ pc' = "queries"
  /\ UNCHANGED <<exitCause, cache, file, store, cycles, inbound, buf, sentClient, sentUp,
                 upPending, upInbox, upGot, spurious>>

\* if handled: response.to_vec()?, socket.send_to(&response_buf, src)?
SendLocal ==
  /\ pc = "queries" /\ qi > Len(Queries) /\ handled
  /\ \E ok \in BOOLEAN :
       IF ok
         THEN /\ sentClient' = [via |-> "local", msg |-> response]
              /\ pc' = "recv" /\ UNCHANGED exitCause
         ELSE /\ Exit("send") /\ UNCHANGED sentClient
  /\ UNCHANGED <<cache, file, store, cycles, inbound, buf, qi, response, handled, records,
                 call, depth, hops, total, sentUp, upPending, upInbox, upGot, spurious,
                 foundSeen>>

\* else: upstream_socket.send_to(&buf[..len], upstream_addr)?
Forward ==
  /\ pc = "queries" /\ qi > Len(Queries) /\ ~handled
  /\ \E ok \in BOOLEAN :
       IF ok
         THEN /\ sentUp' = buf /\ upPending' = buf
              /\ pc' = "await_up" /\ UNCHANGED exitCause
         ELSE /\ Exit("send_upstream") /\ UNCHANGED <<sentUp, upPending>>
  /\ UNCHANGED <<cache, file, store, cycles, inbound, buf, qi, response, handled, records,
                 call, depth, hops, total, sentClient, upInbox, upGot, spurious, foundSeen>>

\* upstream_socket.recv_from(&mut buf)?, socket.send_to(&buf[..upstream_len], src)?
RelayReply ==
  /\ pc = "await_up" /\ upInbox # <<>>
  /\ upGot' = Head(upInbox) /\ upInbox' = Tail(upInbox)
  /\ buf' = Truncate(Head(upInbox))
  /\ \E ok \in BOOLEAN :
       IF ok
         THEN /\ sentClient' = [via |-> "relay", dgram |-> Truncate(Head(upInbox))]
              /\ pc' = "recv" /\ UNCHANGED exitCause
         ELSE /\ Exit("send") /\ UNCHANGED sentClient
  /\ UNCHANGED <<cache, file, store, cycles, inbound, qi, response, handled, records,
                 call, depth, hops, total, sentUp, upPending, spurious, foundSeen>>

\* ------------------------------------------------------------ environment
Running == pc \notin {"start", "exited"}

\* the override table is edited
StoreChange ==
  /\ Running
  /\ \E s \in StoreConfigs \ {store} : store' = s
  /\ UNCHANGED <<pc, exitCause, upPending, upInbox, spurious>>
  /\ UNCHANGED progVars

\* the upstream resolver answers the forwarded datagram
UpstreamReply ==
  /\ upPending # None
  /\ \E n \in ReplyLens : upInbox' = Append(upInbox, Reply(upPending, n))
  /\ upPending' = None
  /\ UNCHANGED <<pc, exitCause, store, spurious>>
  /\ UNCHANGED progVars

\* a datagram that is no fresh reply reaches upstream_socket. The dispatcher
\* reads that socket only while it awaits a reply, so an earlier arrival is
\* the same as one at that moment.
Spurious ==
  /\ pc = "await_up" /\ spurious < MaxSpurious
  /\ \E d \in SpuriousDgrams : upInbox' = Append(upInbox, d)
  /\ spurious' = spurious + 1
  /\ UNCHANGED <<pc, exitCause, store, upPending>>
  /\ UNCHANGED progVars

Next ==
  \/ Startup
  \/ Receive
  \/ HandleQuery
  \/ HandleQueryRecursive
  \/ Collect
  \/ SendLocal
  \/ Forward
  \/ RelayReply
  \/ StoreChange
  \/ UpstreamReply
  \/ Spurious

Spec == Init /\ [][Next]_vars

\* ================================================================ claims
IsLocal(x) == x # None /\ x.via = "local"
IsRelay(x) == x # None /\ x.via = "relay"

\* the query of the invocation about to run, and its cache key
CurQuery == IF pc = "queries" THEN Queries[qi] ELSE call
CurKey == QName(CurQuery)

\* this step is one invocation of handle_query / handle_query_recursive
TopStep == pc = "queries" /\ pc' \in {"returned", "recursing"}
RecStep == pc = "recursing" /\ hops' # hops
HopStep == TopStep \/ RecStep

LastHop == hops[Len(hops)]

\* C1: in a dispatcher cycle the local response is sent only when some
\* question emitted records, and then nothing goes upstream; the datagram is
\* forwarded only when no question emitted a record, and then no local
\* response is sent; a cycle that ran to its end did exactly one of the two.
C1_LocalXorUpstream ==
  /\ IsLocal(sentClient) => (total > 0 /\ sentUp = None)
  /\ sentUp # None => (total = 0 /\ ~IsLocal(sentClient))
  /\ (pc = "recv" /\ cycles > 0) =>
       IF total > 0
         THEN IsLocal(sentClient) /\ sentUp = None
         ELSE sentUp # None /\ IsRelay(sentClient)

\* C1 witness: a two-question message, the first answered locally and the
\* second not, answered with the local response
C1_Witness ==
  /\ pc = "recv" /\ cycles > 0 /\ IsLocal(sentClient) /\ sentUp = None
  /\ inbound.id = 3 /\ Len(sentClient.msg.answers) = 1

\* C2: when the store once returned Found for a name and now has no row for
\* it, the next resolution of the name leaves it absent from the cache and
\* emits no record.
C2_EvictsAfterNotFound ==
  [][ (/\ TopStep
       /\ \E f \in foundSeen : f.key = CurKey
       /\ CurKey \notin DOMAIN store)
      => (CurKey \notin DOMAIN cache' /\ records' = <<>>) ]_vars

\* C3 as claimed: a cache entry whose type differs from the requested type
\* makes the resolver look the name up in the store.
C3_MismatchFallsThrough ==
  (/\ pc = "returned"
   /\ hops[1].src = "cache"
   /\ hops[1].row.record_type # hops[1].qtype)
  => \E i \in 1..Len(hops) : hops[i].key = hops[1].key /\ hops[i].src # "cache"

\* C3 amended: handle_query on a name cached as ADDRESS with a requested type
\* other than ADDRESS returns at once with no record, without a store lookup,
\* and leaves cache and snapshot file as they were.
C3_MismatchReturnsEmpty ==
  [][ (/\ TopStep
       /\ CacheHas(cache, CurKey)
       /\ cache[CurKey].record_type = "A"
       /\ CurQuery.qtype # "A")
      => (/\ pc' = "returned" /\ records' = <<>>
          /\ Len(hops') = 1 /\ hops'[1].src = "cache"
          /\ cache' = cache /\ file' = file) ]_vars

\* C3 witness: cached ADDRESS, requested ALIAS, nothing emitted, one hop
C3_Witness ==
  /\ pc = "returned" /\ Len(hops) = 1
  /\ hops[1].src = "cache" /\ hops[1].row.record_type = "A" /\ hops[1].qtype = "CNAME"
  /\ records = <<>>

\* C4: run_proxy returns only because the listening socket could not be bound.
C4_LoopNeverExits == pc = "exited" => exitCause = "bind"

\* C5: an invocation whose store lookup ends Unreachable changes neither the
\* cache nor the snapshot file and adds no record, at top level and at every
\* alias hop.
C5_UnreachableFrame ==
  [][ (HopStep /\ hops'[Len(hops')].src = "unreachable")
      => (cache' = cache /\ file' = file /\ records' = records /\ call' = None) ]_vars

\* C5 witness: an alias hop whose lookup was Unreachable, file not in step
\* with the cache
C5_Witness ==
  /\ pc = "returned" /\ Len(hops) >= 2 /\ LastHop.src = "unreachable"
  /\ file # FileJson(cache)

\* C6: an invocation on a name cached as ADDRESS with a valid IPv4 value and
\* requested type ADDRESS adds exactly one address record with the cached
\* value and ttl, makes no store lookup and leaves cache and file unchanged.
C6_CachedAddress ==
  [][ (/\ HopStep
       /\ CacheHas(cache, CurKey)
       /\ cache[CurKey].record_type = "A"
       /\ ParseIpv4(cache[CurKey].value).ok
       /\ CurQuery.qtype = "A")
      => (/\ records' = records \o <<ARecord(CurQuery.name, cache[CurKey].ttl,
                                              ParseIpv4(cache[CurKey].value).addr)>>
          /\ pc' = "returned"
          /\ hops'[Len(hops')].src = "cache"
          /\ cache' = cache /\ file' = file) ]_vars

\* C6 witness: a top-level address query served from an entry loaded from the
\* snapshot file, with that entry's ttl
C6_Witness ==
  /\ pc = "returned" /\ Len(hops) = 1 /\ hops[1].src = "cache"
  /\ hops[1].row.record_type = "A" /\ hops[1].qtype = "A"
  /\ Len(records) = 1 /\ records[1].ttl = 60

FileMaps(key, entry) ==
  file.kind = "json" /\ key \in DOMAIN file.records /\ file.records[key] = entry

\* C7 as claimed: after a lookup that returned Found(ADDRESS, v) cache and
\* snapshot file map the name to {ADDRESS, v, 3600}; a later address
\* resolution of the name emits exactly the address record for v without a
\* store lookup.
C7_WriteThroughAlways ==
  /\ (pc = "returned" /\ LastHop.src = "found" /\ LastHop.row.record_type = "A") =>
       LET e == DnsRecord("A", LastHop.row.value, StoreTtl)
       IN /\ CacheHas(cache, LastHop.key) /\ cache[LastHop.key] = e
          /\ FileMaps(LastHop.key, e)
  /\ (pc = "returned" /\ hops[1].qtype = "A") =>
       \A f \in foundSeen :
         (f.key = hops[1].key /\ f.row.record_type = "A") =>
           /\ Len(hops) = 1 /\ hops[1].src = "cache"
           /\ ParseIpv4(f.row.value).ok
           /\ records = <<ARecord(Queries[qi].name, StoreTtl, ParseIpv4(f.row.value).addr)>>

\* C7 amended: after a lookup that returned Found(ADDRESS, v) the cache maps
\* the name to {ADDRESS, v, 3600}, and so does the snapshot file when its
\* write succeeded; a later address resolution of the name makes no store
\* lookup and emits exactly the address record for v with ttl 3600 when v is
\* an IPv4 literal, and nothing when it is not.
C7_WriteThrough ==
  /\ (pc = "returned" /\ LastHop.src = "found" /\ LastHop.row.record_type = "A") =>
       LET e == DnsRecord("A", LastHop.row.value, StoreTtl)
       IN /\ CacheHas(cache, LastHop.key) /\ cache[LastHop.key] = e
          /\ (LastHop.write = "written" => FileMaps(LastHop.key, e))
  /\ (pc = "returned" /\ hops[1].qtype = "A") =>
       \A f \in foundSeen :
         (f.key = hops[1].key /\ f.row.record_type = "A") =>
           /\ Len(hops) = 1 /\ hops[1].src = "cache"
           /\ records = IF ParseIpv4(f.row.value).ok
                          THEN <<ARecord(Queries[qi].name, StoreTtl, ParseIpv4(f.row.value).addr)>>
                          ELSE <<>>

\* C7 witness: the name was found in the store by an earlier resolution, the
\* store has dropped it since, and it is answered from the cache
C7_Witness ==
  /\ pc = "returned" /\ Len(hops) = 1 /\ hops[1].src = "cache" /\ hops[1].qtype = "A"
  /\ \E f \in foundSeen : f.key = hops[1].key /\ f.row = Row("A", Ip2)
  /\ hops[1].key \notin DOMAIN store
  /\ Len(records) = 1 /\ records[1].rdata = <<10, 0, 0, 5>>

Answered(h) == h.src \in {"cache", "found"}
HopTtl(h) == IF h.src = "cache" THEN h.row.ttl ELSE StoreTtl

\* the override the next lookup of key k would get, when it gets one
HasAddress(k) ==
  IF k \in DOMAIN cache
    THEN cache[k].record_type = "A" /\ ParseIpv4(cache[k].value).ok
    ELSE k \in DOMAIN store /\ store[k].record_type = "A" /\ ParseIpv4(store[k].value).ok

\* C8: when the queried name a is answered, by cache or store, with ALIAS b
\* and b is answered with a valid ADDRESS v, handle_query for type ADDRESS or
\* ALIAS returns exactly two records: the alias record a->b, then the address
\* record b->v.
C8_AliasChain ==
  (/\ pc = "returned"
   /\ hops[1].qtype \in {"A", "CNAME"}
   /\ Answered(hops[1]) /\ hops[1].row.record_type = "CNAME"
   /\ NameParse(hops[1].row.value).ok
   /\ IF Len(hops) >= 2
        THEN /\ Answered(hops[2]) /\ hops[2].row.record_type = "A"
             /\ ParseIpv4(hops[2].row.value).ok
        ELSE HasAddress(QName(AQuery(NameParse(hops[1].row.value).name))))
  => LET b == NameParse(hops[1].row.value).name
     IN /\ Len(hops) = 2 /\ hops[2].key = QName(AQuery(b))
        /\ records = << CnameRecord(Queries[qi].name, HopTtl(hops[1]), b),
                        ARecord(b, HopTtl(hops[2]), ParseIpv4(hops[2].row.value).addr) >>

\* C8 witness: a -> b -> 1.2.3.4 answered by the store for an ALIAS query
C8_Witness ==
  /\ pc = "returned" /\ Len(hops) = 2 /\ hops[1].qtype = "CNAME"
  /\ hops[1].src = "found" /\ hops[2].src = "found"
  /\ Len(records) = 2 /\ records[1].rtype = "CNAME" /\ records[2].rtype = "A"
  /\ records[2].rdata = <<1, 2, 3, 4>>

\* C9: what is sent upstream is the inbound datagram, and what is relayed to
\* the requester is the datagram received from upstream, byte for byte.
C9_RelayVerbatim ==
  /\ sentUp # None => sentUp = inbound
  /\ IsRelay(sentClient) => sentClient.dgram = upGot

\* C10: a local response that was sent carries the inbound transaction id and
\* question section, the response flag and recursion-desired.
C10_ResponseEchoes ==
  IsLocal(sentClient) =>
    /\ sentClient.msg.id = inbound.id
    /\ sentClient.msg.queries = inbound.queries
    /\ sentClient.msg.message_type = "Response"
    /\ sentClient.msg.recursion_desired

\* C11: the key of every cache and store access is the query name lowercased
\* with the trailing root dot stripped.
C11_KeyLowercased ==
  pc \in {"returned", "recursing"} =>
    hops[1].key = Lower(TrimEndDots(NameToString(Queries[qi].name)))

\* C12: the cache changes only inside an invocation of the resolver, and an
\* invocation that changed it called cache.save before it went on; a save
\* whose write succeeded leaves in the snapshot file exactly the in-memory
\* mapping, and an invocation without a save leaves the file alone.
C12_SaveAfterMutation ==
  [][ /\ (cache' # cache /\ pc # "start") =>
           (HopStep /\ hops'[Len(hops')].write # "none")
      /\ HopStep =>
           /\ (hops'[Len(hops')].write = "written" =>
                 (file' = FileJson(cache') /\ CacheLoad(file') = cache'))
           /\ (hops'[Len(hops')].write = "none" => (file' = file /\ cache' = cache)) ]_vars

\* C12 witness: an alias hop removed or inserted an entry and the write
\* succeeded: the file holds the mapping, which is not the one it started with
C12_Witness ==
  /\ pc = "returned" /\ Len(hops) >= 2
  /\ hops[1].src = "found" /\ hops[1].write = "written"
  /\ LastHop.src = "found" /\ LastHop.write = "written"
  /\ file = FileJson(cache) /\ Cardinality(DOMAIN cache) >= 2

\* C13: an invocation for a name that is in neither the cache nor the store,
\* whose lookup reached the store, adds no record for any requested type,
\* makes no further call and leaves the name absent from the cache.
C13_UnknownNameEmitsNothing ==
  [][ (/\ HopStep
       /\ ~CacheHas(cache, CurKey)
       /\ CurKey \notin DOMAIN store
       /\ hops'[Len(hops')].src # "unreachable")
      => (/\ hops'[Len(hops')].src = "notfound"
          /\ records' = records /\ call' = None /\ pc' = "returned"
          /\ ~CacheHas(cache', CurKey)) ]_vars

\* C13 witness: the target of an alias is in neither cache nor store; the
\* resolution returned the alias record alone
C13_Witness ==
  /\ pc = "returned" /\ Len(hops) >= 2 /\ LastHop.src = "notfound"
  /\ ~CacheHas(cache, LastHop.key) /\ LastHop.key \notin DOMAIN store
  /\ Len(records) = 1 /\ records[1].rtype = "CNAME"

\* C14: every store lookup that returned NotFound, at top level or for an
\* alias target, leaves the name absent from the cache, calls cache.save and
\* adds no record.
C14_NotFoundPersists ==
  [][ (HopStep /\ hops'[Len(hops')].src = "notfound")
      => (/\ ~CacheHas(cache', hops'[Len(hops')].key)
          /\ hops'[Len(hops')].write # "none"
          /\ records' = records /\ call' = None) ]_vars

\* the override a lookup of key k gets now: the cache entry, else the store row
Override(k) ==
  IF CacheHas(cache, k) THEN cache[k]
  ELSE IF k \in DOMAIN store THEN store[k]
  ELSE [record_type |-> "NONE", value |-> <<>>]

\* the key an ALIAS override of k leads to, the empty key when there is none
AliasNext(k) ==
  LET o == Override(k)
  IN IF o.record_type = "CNAME" /\ NameParse(o.value).ok
       THEN QName(AQuery(NameParse(o.value).name))
       ELSE <<>>

\* k is on an alias cycle of one, two or three names
OnAliasCycle(k) ==
  \/ AliasNext(k) = k
  \/ AliasNext(AliasNext(k)) = k
  \/ AliasNext(AliasNext(AliasNext(k))) = k

\* C15: the resolution of a name that is on an alias cycle of the override
\* records never returns when each of its lookups is answered by the cache or
\* by the store.
C15_CycleNeverReturns ==
  (/\ pc = "returned"
   /\ \A i \in 1..Len(hops) : hops[i].src \in {"cache", "found"})
  => ~OnAliasCycle(hops[1].key)

\* C16: an invocation, top-level or alias hop, that finds the name cached as
\* ALIAS with a well-formed target adds the alias record and goes on to
\* resolve the target for type ADDRESS.
C16_CachedAliasFollowed ==
  [][ (/\ HopStep
       /\ CacheHas(cache, CurKey)
       /\ cache[CurKey].record_type = "CNAME"
       /\ NameParse(cache[CurKey].value).ok)
      => LET b == NameParse(cache[CurKey].value).name
         IN /\ records' = records \o <<CnameRecord(CurQuery.name, cache[CurKey].ttl, b)>>
            /\ call' = AQuery(b)
            /\ pc' = "recursing" ]_vars

\* the value of an override is not of the form its type asks for
Malformed(o) ==
  \/ o.record_type = "A" /\ ~ParseIpv4(o.value).ok
  \/ o.record_type = "CNAME" /\ ~NameParse(o.value).ok

\* C17: an invocation answered, by the cache or by the store, with a record
\* whose value is malformed adds no record and makes no further call; it
\* returns, and the dispatcher goes on with the loop.
C17_MalformedDropped ==
  [][ (/\ HopStep
       /\ hops'[Len(hops')].src \in {"cache", "found"}
       /\ Malformed(hops'[Len(hops')].row))
      => (records' = records /\ call' = None /\ pc' = "returned" /\ exitCause' = "none") ]_vars

\* C17 witness: the store answered an address query with a value that is no
\* IPv4 literal, and the resolution returned without a record
C17_Witness ==
  /\ pc = "returned" /\ Len(hops) = 1 /\ hops[1].src = "found"
  /\ hops[1].qtype = "A" /\ hops[1].row = Row("A", BadIp)
  /\ records = <<>> /\ exitCause = "none"

\* C18: once the cache is loaded no step changes or drops an entry it holds;
\* a store lookup, and with it cache.insert and cache.remove, happens only
\* for a key the cache does not hold.
C18_CacheMonotonic ==
  [][ /\ \A k \in DOMAIN cache : CacheHas(cache', k) /\ cache'[k] = cache[k]
      /\ (HopStep /\ hops'[Len(hops')].src # "cache") =>
           ~CacheHas(cache, hops'[Len(hops')].key) ]_vars

\* C18 witness: a name is answered from its cache entry while the store holds
\* a different row for it
C18_Witness ==
  /\ pc = "returned" /\ Len(hops) = 1 /\ hops[1].src = "cache"
  /\ hops[1].key \in DOMAIN store
  /\ store[hops[1].key].value # cache[hops[1].key].value
  /\ cycles = 1 /\ qi = 2

\* the invocations of the running resolution that went to the store
Lookups == { i \in 1..Len(hops) : hops[i].src # "cache" }

\* C19: within one resolution no two store lookups are made for the same
\* normalized (lowercased, dot-trimmed) name, and the lookups and the nested
\* calls number at most the names of the store plus one.
C19_OneLookupPerName ==
  /\ \A i, j \in Lookups : i # j => Lower(hops[i].key) # Lower(hops[j].key)
  /\ Cardinality(Lookups) <= Cardinality(UNION { DOMAIN s : s \in StoreConfigs }) + 1
  /\ depth <= Cardinality(UNION { DOMAIN s : s \in StoreConfigs }) + 1

\* C20: a datagram relayed to the requester is the upstream resolver's reply
\* to the message forwarded in this cycle: it came from the upstream resolver
\* and carries the transaction id of the inbound message.
C20_NoCrossDelivery ==
  IsRelay(sentClient) => (upGot.from = "upstream" /\ upGot.id = inbound.id)

====
